---- MODULE Spec2Model ----
(***************************************************************************)
(* Model of src/src/datasets/utils/extract.py: the five format            *)
(* detector/extractor pairs and Extractor.extract, run by several          *)
(* processes that share one filesystem.                                    *)
(*                                                                         *)
(* An input file is abstracted to what the code can observe of it: the    *)
(* answer of each detector and whether its unpacking runs to the end.     *)
(* An output path is absent, a directory or a regular file; what it holds *)
(* is a set of <<source, index>> pieces, a piece being one archive member *)
(* (directory) or one copied chunk (regular file).                         *)
(***************************************************************************)
EXTENDS Naturals, Sequences, FiniteSets, TLC

\* ---------------------------------------------------------------- bounds
NumProcs == 2
MaxCalls == 2
NumMembers == 2
MaxTail == 2

\* the callers, the input paths and the output paths they may pass
Procs == 1..NumProcs
Inputs == {"a", "b"}
Outputs == {"o"}

\* ------------------------------------------------------ formats (line 106)
\* the list with Zip tried before Gzip
extractorsZipEarly ==
    <<"TarExtractor", "ZipExtractor", "GzipExtractor", "XzExtractor", "RarExtractor">>

extractors ==
    <<"TarExtractor", "GzipExtractor", "ZipExtractor", "XzExtractor", "RarExtractor">>

ExtractorSet == {extractors[k] : k \in 1..Len(extractors)}

\* An input file: the detectors that answer True on it, and whether the
\* matching library unpacks it completely (ok) or fails partway; a file that
\* no detector matches is never handed to a library.
FileKinds == {k \in [match : SUBSET ExtractorSet, ok : BOOLEAN] : k.match = {} => ~k.ok}

\* The files on which at most one detector answers True.
UnambiguousKinds == {k \in FileKinds : Cardinality(k.match) <= 1}

\* The archive under test is stored under every input path.
FileSystems(kinds) == {[i \in Inputs |-> k] : k \in kinds}

\* --------------------------------------------------------------- outcomes
NoExc == [type |-> "None", msg |-> ""]
Ok == [type |-> "Ok", msg |-> ""]
NoResult == [type |-> "Pending", msg |-> ""]
UnknownArchiveFormat ==
    [type |-> "EnvironmentError", msg |-> "Archive format could not be identified"]
MissingOptionalDependency ==
    [type |-> "EnvironmentError", msg |-> "Please pip install rarfile"]
CorruptArchive(e) == [type |-> "DecodeError", msg |-> e]
FileExistsError == [type |-> "FileExistsError", msg |-> "makedirs"]
RmdirError == [type |-> "OSError", msg |-> "rmdir"]
IsADirectoryError == [type |-> "IsADirectoryError", msg |-> "open"]
NotADirectoryError == [type |-> "NotADirectoryError", msg |-> "extractall"]

\* ------------------------------------------------------- output path states
Absent == [kind |-> "absent", content |-> {}]
Dir(c) == [kind |-> "dir", content |-> c]
File(c) == [kind |-> "file", content |-> c]

Pieces(src) == {<<src, i>> : i \in 1..NumMembers}
OldPiece == <<"old", 1>>

\* What a caller may find at an output path before any call.
InitialOutputs == {Absent, Dir({}), Dir({OldPiece}), File({OldPiece})}

VARIABLES
    files,               \* input path -> FileKinds
    RARFILE_AVAILABLE,   \* config.RARFILE_AVAILABLE
    fs,                  \* output path -> state of that path
    lock,                \* lock path -> holder (0: free)
    lockFiles,           \* lock files that exist
    pc,                  \* process -> position in Extractor.extract
    inp,                 \* process -> input_path of its call
    outp,                \* process -> output_path of its call
    pre,                 \* process -> what output_path was when its call began
    sel,                 \* process -> extractors invoked in its call
    written,             \* process -> pieces written by the running extractor
    exc,                 \* process -> exception unwinding out of the with block
    result,              \* process -> what the call reported to its caller
    calls,               \* calls started so far
    probe,               \* the last Extractor.is_extractable call and its outcome
    byteProbe            \* the bytes of the file under test and the last detector run on them

vars == <<files, RARFILE_AVAILABLE, fs, lock, lockFiles, pc, inp, outp, pre, sel,
          written, exc, result, calls, probe, byteProbe>>

\* one lock file for every input
LockPathGlobal(input_path) == "extract.lock"

\* line 117
LockPath(input_path) == input_path \o ".lock"

LockPaths == {LockPath(i) : i \in Inputs}

\* ------------------------------------------------------------- detectors
\* lines 15-16: tarfile.is_tarfile(path)
TarExtractor_is_extractable(path) == "TarExtractor" \in files[path].match

\* lines 27-34: gzip.open(path).read(1) raises no OSError
GzipExtractor_is_extractable(path) == "GzipExtractor" \in files[path].match

\* lines 46-47: zipfile.is_zipfile(path)
ZipExtractor_is_extractable(path) == "ZipExtractor" \in files[path].match

\* lines 58-68: the first six bytes are the xz magic
XzExtractor_is_extractable(path) == "XzExtractor" \in files[path].match

\* lines 80-90: the first bytes are a RAR4 or RAR5 signature
RarExtractor_is_extractable(path) == "RarExtractor" \in files[path].match

\* extractor.is_extractable(path), dispatched on the class
is_extractable(extractor, path) ==
    CASE extractor = "TarExtractor" -> TarExtractor_is_extractable(path)
      [] extractor = "GzipExtractor" -> GzipExtractor_is_extractable(path)
      [] extractor = "ZipExtractor" -> ZipExtractor_is_extractable(path)
      [] extractor = "XzExtractor" -> XzExtractor_is_extractable(path)
      [] extractor = "RarExtractor" -> RarExtractor_is_extractable(path)

\* lines 108-110: any(extractor.is_extractable(path) for extractor in cls.extractors)
Extractor_is_extractable(path) ==
    \E k \in 1..Len(extractors) : is_extractable(extractors[k], path)

\* the loop of lines 121-124 without its break: the last match is the one
\* that ends up unpacked
FirstMatchNoBreak(path) ==
    IF Extractor_is_extractable(path)
    THEN CHOOSE k \in 1..Len(extractors) :
            /\ is_extractable(extractors[k], path)
            /\ \A j \in (k + 1)..Len(extractors) : ~is_extractable(extractors[j], path)
    ELSE 0

\* lines 121-124: the index of the first extractor of the list that matches
\* (0: the loop ends without a match)
FirstMatch(path) ==
    IF Extractor_is_extractable(path)
    THEN CHOOSE k \in 1..Len(extractors) :
            /\ is_extractable(extractors[k], path)
            /\ \A j \in 1..(k - 1) : ~is_extractable(extractors[j], path)
    ELSE 0

\* every extractor unpacking into the directory, none replacing it by a file
EntryOfDirectoryOnly(extractor) == "extractall"

\* the first statement of each extractor's extract
EntryOf(extractor) ==
    CASE extractor \in {"TarExtractor", "ZipExtractor"} -> "extractall"
      [] extractor \in {"GzipExtractor", "XzExtractor"} -> "rmdir"
      [] extractor = "RarExtractor" -> "extractall"

\* ------------------------------------------------------ filesystem calls
\* an rmtree that removes nothing
ShutilRmtreeNothing(s) == s

\* line 119: shutil.rmtree(output_path, ignore_errors=True) removes a
\* directory tree; on a regular file or a missing path it fails, silently
ShutilRmtree(s) == IF s.kind = "dir" THEN Absent ELSE s

\* line 120: os.makedirs(output_path, exist_ok=True) on a path that is not a
\* regular file
OsMakedirs(s) == IF s.kind = "absent" THEN Dir({}) ELSE s

\* a piece written at position i replaces what was at that position
WritePiece(c, src, i) == {x \in c : x[2] # i} \cup {<<src, i>>}

\* ------------------------------------------ Extractor.is_extractable, called
\* The paths a caller may probe: the input files, a path that does not exist
\* (open fails) and a file that opens but whose reads fail.
ProbePaths == Inputs \cup {"missing", "unreadable"}

Openable(path) == path # "missing"
Readable(path) == path \in Inputs

FileNotFoundError == [type |-> "FileNotFoundError", msg |-> "open"]
ReadError == [type |-> "OSError", msg |-> "read"]

\* what a call hands back: a boolean, or an exception that reaches the caller
Returns(b) == [raised |-> FALSE, value |-> b, exc |-> NoExc]
Raises(e) == [raised |-> TRUE, value |-> FALSE, exc |-> e]

\* lines 15-16: tarfile.is_tarfile catches TarError only; the failure of the
\* open and of a read reach the caller
TarExtractor_is_extractable_outcome(path) ==
    IF ~Openable(path) THEN Raises(FileNotFoundError)
    ELSE IF ~Readable(path) THEN Raises(ReadError)
    ELSE Returns(TarExtractor_is_extractable(path))

\* lines 29-34: gzip.open is outside the try, fh.read(1) inside it
GzipExtractor_is_extractable_outcome(path) ==
    IF ~Openable(path) THEN Raises(FileNotFoundError)
    ELSE IF ~Readable(path) THEN Returns(FALSE)
    ELSE Returns(GzipExtractor_is_extractable(path))

\* lines 46-47: zipfile.is_zipfile catches OSError around open and read
ZipExtractor_is_extractable_outcome(path) ==
    IF ~Openable(path) THEN Returns(FALSE)
    ELSE IF ~Readable(path) THEN Returns(FALSE)
    ELSE Returns(ZipExtractor_is_extractable(path))

\* lines 60-68: open is outside the try, f.read(6) inside it
XzExtractor_is_extractable_outcome(path) ==
    IF ~Openable(path) THEN Raises(FileNotFoundError)
    ELSE IF ~Readable(path) THEN Returns(FALSE)
    ELSE Returns(XzExtractor_is_extractable(path))

\* lines 85-90: no try at all around open and fd.read
RarExtractor_is_extractable_outcome(path) ==
    IF ~Openable(path) THEN Raises(FileNotFoundError)
    ELSE IF ~Readable(path) THEN Raises(ReadError)
    ELSE Returns(RarExtractor_is_extractable(path))

\* extractor.is_extractable(path) as a call, dispatched on the class
is_extractable_outcome(extractor, path) ==
    CASE extractor = "TarExtractor" -> TarExtractor_is_extractable_outcome(path)
      [] extractor = "GzipExtractor" -> GzipExtractor_is_extractable_outcome(path)
      [] extractor = "ZipExtractor" -> ZipExtractor_is_extractable_outcome(path)
      [] extractor = "XzExtractor" -> XzExtractor_is_extractable_outcome(path)
      [] extractor = "RarExtractor" -> RarExtractor_is_extractable_outcome(path)

\* any() that runs the generator to its end before answering
RECURSIVE anyExhaustive(_, _, _)
anyExhaustive(k, path, evaluated) ==
    IF k > Len(extractors)
    THEN [evaluated |-> evaluated,
          outcome |-> Returns(\E j \in 1..Len(evaluated) :
                                 is_extractable_outcome(evaluated[j], path).value)]
    ELSE LET r == is_extractable_outcome(extractors[k], path)
         IN  IF r.raised
             THEN [evaluated |-> Append(evaluated, extractors[k]), outcome |-> r]
             ELSE anyExhaustive(k + 1, path, Append(evaluated, extractors[k]))

\* line 110: any(...) over the generator, from the k-th extractor on: the
\* detectors are called in list order, the first True ends the iteration and
\* an exception of a detector leaves through any()
RECURSIVE any(_, _, _)
any(k, path, evaluated) ==
    IF k > Len(extractors)
    THEN [evaluated |-> evaluated, outcome |-> Returns(FALSE)]
    ELSE LET r == is_extractable_outcome(extractors[k], path)
         IN  IF r.raised
             THEN [evaluated |-> Append(evaluated, extractors[k]), outcome |-> r]
             ELSE IF r.value
             THEN [evaluated |-> Append(evaluated, extractors[k]),
                   outcome |-> Returns(TRUE)]
             ELSE any(k + 1, path, Append(evaluated, extractors[k]))

\* no Extractor.is_extractable call made yet
NoProbe == [path |-> "none", evaluated |-> <<>>, outcome |-> Returns(FALSE), held |-> 0]

\* the holder of the lock that belongs to a probed path (0: free or no lock)
HolderOf(path) == IF LockPath(path) \in DOMAIN lock THEN lock[LockPath(path)] ELSE 0

\* --------------------------------------------------- detectors, on bytes
\* line 82, b"Rar!\x1a\x07\x00", and line 83, b"Rar!\x1a\x07\x01\x00"
RAR_ID == <<82, 97, 114, 33, 26, 7, 0>>
RAR5_ID == <<82, 97, 114, 33, 26, 7, 1, 0>>

\* line 65, b"\xfd7zXZ\x00", and the length read at line 62
XZ_MAGIC == <<253, 55, 122, 88, 90, 0>>
XzReadLen == 6

\* the two bytes every gzip member begins with (1f 8b)
GZIP_MAGIC == <<31, 139>>

\* sizes below which the libraries cannot find a tar header block or a zip
\* end-of-central-directory record
TarBlockLen == 512
ZipEndRecordLen == 22

Min(a, b) == IF a <= b THEN a ELSE b

\* f.read(n) on a file just opened: the first n bytes, fewer at end of file
Read(c, n) == SubSeq(c, 1, Min(n, Len(c)))

\* buf.startswith(prefix)
StartsWith(buf, prefix) ==
    Len(buf) >= Len(prefix) /\ SubSeq(buf, 1, Len(prefix)) = prefix

\* The files under test: a signature cut at any length, followed by up to
\* MaxTail bytes that are 00 or 01.  None of them is as long as a tar block
\* or a zip end record, and none begins with the gzip magic.
TailBytes == {0, 1}
Tails == UNION {[1..k -> TailBytes] : k \in 0..MaxTail}
Signatures == {RAR_ID, RAR5_ID, XZ_MAGIC}
ByteFiles ==
    UNION {{Read(sig, n) \o t : n \in 0..Len(sig), t \in Tails} : sig \in Signatures}

\* lines 15-16: tarfile.is_tarfile finds no header block in a file shorter
\* than one block that is no compressed stream either
TarExtractor_is_extractable_bytes(c) ==
    CASE Len(c) < TarBlockLen /\ ~StartsWith(c, GZIP_MAGIC) -> FALSE

\* lines 29-34: gzip's reader takes end of file where a member would begin
\* for the end of the stream, and read(1) returns b"" without error; two
\* bytes that are not the magic make it raise BadGzipFile, an OSError
GzipExtractor_is_extractable_bytes(c) ==
    CASE c = <<>> -> TRUE
      [] c # <<>> /\ Read(c, Len(GZIP_MAGIC)) # GZIP_MAGIC -> FALSE

\* lines 46-47: zipfile.is_zipfile finds no end record in a file shorter
\* than one
ZipExtractor_is_extractable_bytes(c) ==
    CASE Len(c) < ZipEndRecordLen -> FALSE

\* compares the first five bytes only
XzExtractor_is_extractable_bytes_short(c) ==
    LET header_magic_bytes == Read(c, 5)
    IN  header_magic_bytes = Read(XZ_MAGIC, 5)

\* lines 60-68
XzExtractor_is_extractable_bytes(c) ==
    LET header_magic_bytes == Read(c, XzReadLen)
    IN  header_magic_bytes = XZ_MAGIC

\* reads len(RAR_ID) bytes, one too few for the longer signature
RarExtractor_is_extractable_bytes_short(c) ==
    LET buf == Read(c, Len(RAR_ID))
    IN  StartsWith(buf, RAR_ID) \/ StartsWith(buf, RAR5_ID)

\* lines 82-90
RarExtractor_is_extractable_bytes(c) ==
    LET buf == Read(c, Len(RAR5_ID))
    IN  StartsWith(buf, RAR_ID) \/ StartsWith(buf, RAR5_ID)

\* extractor.is_extractable on a file with bytes c
is_extractable_bytes(extractor, c) ==
    CASE extractor = "TarExtractor" -> TarExtractor_is_extractable_bytes(c)
      [] extractor = "GzipExtractor" -> GzipExtractor_is_extractable_bytes(c)
      [] extractor = "ZipExtractor" -> ZipExtractor_is_extractable_bytes(c)
      [] extractor = "XzExtractor" -> XzExtractor_is_extractable_bytes(c)
      [] extractor = "RarExtractor" -> RarExtractor_is_extractable_bytes(c)

\* what the detector itself read of the file (lines 62 and 86); the reads
\* made inside the libraries are not followed
BufferOf(extractor, c) ==
    CASE extractor = "XzExtractor" -> Read(c, XzReadLen)
      [] extractor = "RarExtractor" -> Read(c, Len(RAR5_ID))
      [] OTHER -> <<>>

\* A file of ByteFiles as the extractors see it: the detectors that match
\* it, and whether unpacking it runs to the end.  The empty file is an empty
\* gzip stream, which gzip.open copies out without error; a file that is
\* little more than a signature makes lzma and rarfile raise.
KindOfBytes(c) ==
    [match |-> {e \in ExtractorSet : is_extractable_bytes(e, c)}, ok |-> c = <<>>]

\* stands for the bytes of a file that the specification does not go into
Opaque == <<"opaque">>

\* no detector run yet on the bytes of the file under test
NoByteProbe == [content |-> Opaque, detector |-> "none", value |-> FALSE, buf |-> <<>>]

\* --------------------------------------------------------------- FileLock
\* FileLock(lock_path).acquire(): blocks while another holder has the lock
FileLockFree(lock_path) == lock[lock_path] = 0

\* ------------------------------------------------------------------- Init
\* config.RARFILE_AVAILABLE is read by RarExtractor.extract only: where no
\* input can reach it, one value stands for both
InitWith(kinds) ==
    /\ files \in FileSystems(kinds)
    /\ RARFILE_AVAILABLE \in
          IF \E i \in Inputs : "RarExtractor" \in files[i].match
          THEN BOOLEAN ELSE {TRUE}
    /\ fs \in [Outputs -> InitialOutputs]
    /\ lock = [l \in LockPaths |-> 0]
    /\ lockFiles = {}
    /\ pc = [p \in Procs |-> "idle"]
    /\ inp = [p \in Procs |-> "a"]
    /\ outp = [p \in Procs |-> "o"]
    /\ pre = [p \in Procs |-> Absent]
    /\ sel = [p \in Procs |-> <<>>]
    /\ written = [p \in Procs |-> 0]
    /\ exc = [p \in Procs |-> NoExc]
    /\ result = [p \in Procs |-> NoResult]
    /\ calls = 0
    /\ probe = NoProbe
    /\ byteProbe = NoByteProbe

\* concurrent callers work on archives that one detector identifies, or none
Init == InitWith(UnambiguousKinds)

\* a caller alone works on every combination of detector answers
InitSeq == InitWith(FileKinds)

\* A process that is not one of the callers (another program using FileLock
\* on the same lock path) and never lets go of a lock it holds.
Foreign == NumProcs + 1

\* the callers start while that process holds the lock of at least one input
InitHeld ==
    /\ files \in FileSystems(UnambiguousKinds)
    /\ RARFILE_AVAILABLE \in
          IF \E i \in Inputs : "RarExtractor" \in files[i].match
          THEN BOOLEAN ELSE {TRUE}
    /\ fs \in [Outputs -> InitialOutputs]
    /\ lock \in {l \in [LockPaths -> {0, Foreign}] : \E x \in LockPaths : l[x] = Foreign}
    /\ lockFiles = {x \in LockPaths : lock[x] = Foreign}
    /\ pc = [p \in Procs |-> "idle"]
    /\ inp = [p \in Procs |-> "a"]
    /\ outp = [p \in Procs |-> "o"]
    /\ pre = [p \in Procs |-> Absent]
    /\ sel = [p \in Procs |-> <<>>]
    /\ written = [p \in Procs |-> 0]
    /\ exc = [p \in Procs |-> NoExc]
    /\ result = [p \in Procs |-> NoResult]
    /\ calls = 0
    /\ probe = NoProbe
    /\ byteProbe = NoByteProbe

\* ---------------------------------------------------------------- actions
\* line 113: a caller enters Extractor.extract(input_path, output_path); the
\* processes being alike, the one that makes its first call is the
\* lowest-numbered one that has not called yet
Call(p, i, o) ==
    /\ pc[p] \in {"idle", "done"}
    /\ pc[p] = "idle" => \A q \in Procs : q < p => pc[q] # "idle"
    /\ calls < MaxCalls
    /\ pc' = [pc EXCEPT ![p] = "check"]
    /\ inp' = [inp EXCEPT ![p] = i]
    /\ outp' = [outp EXCEPT ![p] = o]
    /\ pre' = [pre EXCEPT ![p] = fs[o]]
    /\ sel' = [sel EXCEPT ![p] = <<>>]
    /\ written' = [written EXCEPT ![p] = 0]
    /\ exc' = [exc EXCEPT ![p] = NoExc]
    /\ result' = [result EXCEPT ![p] = NoResult]
    /\ calls' = calls + 1
    /\ UNCHANGED <<byteProbe, probe, files, RARFILE_AVAILABLE, fs, lock, lockFiles>>

\* PreCheck without its test: every call goes on to the lock
PreCheckSkipped(p) ==
    /\ pc[p] = "check"
    /\ pc' = [pc EXCEPT ![p] = "acquire"]
    /\ UNCHANGED <<byteProbe, probe, files, RARFILE_AVAILABLE, fs, lock, lockFiles, inp, outp,
                   pre, sel, written, exc, result, calls>>

\* the check made only once the lock of the input is free
PreCheckUnderLock(p) ==
    /\ pc[p] = "check"
    /\ FileLockFree(LockPath(inp[p]))
    /\ IF Extractor_is_extractable(inp[p])
       THEN /\ pc' = [pc EXCEPT ![p] = "acquire"]
            /\ UNCHANGED result
       ELSE /\ pc' = [pc EXCEPT ![p] = "done"]
            /\ result' = [result EXCEPT ![p] = UnknownArchiveFormat]
    /\ UNCHANGED <<byteProbe, probe, files, RARFILE_AVAILABLE, fs, lock, lockFiles, inp, outp,
                   pre, sel, written, exc, calls>>

\* lines 114-115: the check made before the lock is taken
PreCheck(p) ==
    /\ pc[p] = "check"
    /\ IF Extractor_is_extractable(inp[p])
       THEN /\ pc' = [pc EXCEPT ![p] = "acquire"]
            /\ UNCHANGED result
       ELSE /\ pc' = [pc EXCEPT ![p] = "done"]
            /\ result' = [result EXCEPT ![p] = UnknownArchiveFormat]
    /\ UNCHANGED <<byteProbe, probe, files, RARFILE_AVAILABLE, fs, lock, lockFiles, inp, outp,
                   pre, sel, written, exc, calls>>

\* entering the block without taking the lock
AcquireSkipped(p) ==
    /\ pc[p] = "acquire"
    /\ pc' = [pc EXCEPT ![p] = "rmtree"]
    /\ UNCHANGED <<byteProbe, probe, files, RARFILE_AVAILABLE, fs, lock, lockFiles, inp, outp, pre,
                   sel, written, exc, result, calls>>

\* Acquire that does not wait for the lock to be free
AcquireNoWait(p) ==
    /\ pc[p] = "acquire"
    /\ lock' = [lock EXCEPT ![LockPath(inp[p])] = p]
    /\ lockFiles' = lockFiles \cup {LockPath(inp[p])}
    /\ pc' = [pc EXCEPT ![p] = "rmtree"]
    /\ UNCHANGED <<byteProbe, probe, files, RARFILE_AVAILABLE, fs, inp, outp, pre, sel, written, exc,
                   result, calls>>

\* lines 117-118: with FileLock(lock_path), entry
Acquire(p) ==
    /\ pc[p] = "acquire"
    /\ FileLockFree(LockPath(inp[p]))
    /\ lock' = [lock EXCEPT ![LockPath(inp[p])] = p]
    /\ lockFiles' = lockFiles \cup {LockPath(inp[p])}
    /\ pc' = [pc EXCEPT ![p] = "rmtree"]
    /\ UNCHANGED <<byteProbe, probe, files, RARFILE_AVAILABLE, fs, inp, outp, pre, sel, written, exc,
                   result, calls>>

\* an exception that leaves the call without passing through the exit of
\* the with block
RaiseNoRelease(p, e) ==
    /\ exc' = [exc EXCEPT ![p] = e]
    /\ pc' = [pc EXCEPT ![p] = "done"]

\* an exception raised inside the with block starts unwinding through it
Raise(p, e) ==
    /\ exc' = [exc EXCEPT ![p] = e]
    /\ pc' = [pc EXCEPT ![p] = "release"]

\* line 119
Rmtree(p) ==
    /\ pc[p] = "rmtree"
    /\ fs' = [fs EXCEPT ![outp[p]] = ShutilRmtree(@)]
    /\ pc' = [pc EXCEPT ![p] = "makedirs"]
    /\ UNCHANGED <<byteProbe, probe, files, RARFILE_AVAILABLE, lock, lockFiles, inp, outp, pre, sel,
                   written, exc, result, calls>>

\* line 120: FileExistsError when the path is a regular file
Makedirs(p) ==
    /\ pc[p] = "makedirs"
    /\ IF fs[outp[p]].kind = "file"
       THEN /\ Raise(p, FileExistsError)
            /\ UNCHANGED fs
       ELSE /\ fs' = [fs EXCEPT ![outp[p]] = OsMakedirs(@)]
            /\ pc' = [pc EXCEPT ![p] = "detect"]
            /\ UNCHANGED exc
    /\ UNCHANGED <<byteProbe, probe, files, RARFILE_AVAILABLE, lock, lockFiles, inp, outp, pre, sel,
                   written, result, calls>>

\* RarExtractor.extract that does not look at config.RARFILE_AVAILABLE
RarNeverUnavailable(extractor) == FALSE

\* lines 94, 100-101: RarExtractor.extract raises at once without rarfile
RarUnavailable(extractor) == extractor = "RarExtractor" /\ ~RARFILE_AVAILABLE

\* lines 121-124: the loop picks the first matching extractor and calls it
Detect(p) ==
    /\ pc[p] = "detect"
    /\ IF FirstMatch(inp[p]) = 0
       THEN /\ pc' = [pc EXCEPT ![p] = "release"]
            /\ UNCHANGED <<sel, exc>>
       ELSE /\ sel' = [sel EXCEPT ![p] = Append(@, extractors[FirstMatch(inp[p])])]
            /\ IF RarUnavailable(extractors[FirstMatch(inp[p])])
               THEN Raise(p, MissingOptionalDependency)
               ELSE /\ pc' = [pc EXCEPT ![p] = EntryOf(extractors[FirstMatch(inp[p])])]
                    /\ UNCHANGED exc
    /\ UNCHANGED <<byteProbe, probe, files, RARFILE_AVAILABLE, fs, lock, lockFiles, inp, outp, pre,
                   written, result, calls>>

\* lines 20-22, 51-53, 97-99: extractall writes the members one by one; it
\* creates a missing target directory and fails on a regular file; a corrupt
\* archive makes the library raise before the last member is written
ExtractMember(p) ==
    /\ pc[p] = "extractall"
    /\ \/ /\ ~files[inp[p]].ok
          /\ Raise(p, CorruptArchive(sel[p][Len(sel[p])]))
          /\ UNCHANGED <<fs, written>>
       \/ /\ files[inp[p]].ok \/ written[p] + 1 < NumMembers
          /\ IF fs[outp[p]].kind = "file"
             THEN /\ Raise(p, NotADirectoryError)
                  /\ UNCHANGED <<fs, written>>
             ELSE /\ fs' = [fs EXCEPT ![outp[p]] =
                              Dir(WritePiece(@.content, inp[p], written[p] + 1))]
                  /\ written' = [written EXCEPT ![p] = @ + 1]
                  /\ pc' = [pc EXCEPT ![p] =
                              IF written[p] + 1 = NumMembers THEN "release"
                              ELSE "extractall"]
                  /\ UNCHANGED exc
    /\ UNCHANGED <<byteProbe, probe, files, RARFILE_AVAILABLE, lock, lockFiles, inp, outp, pre, sel,
                   result, calls>>

\* lines 38, 72: os.rmdir(output_path) removes an empty directory only
Rmdir(p) ==
    /\ pc[p] = "rmdir"
    /\ IF fs[outp[p]] = Dir({})
       THEN /\ fs' = [fs EXCEPT ![outp[p]] = Absent]
            /\ pc' = [pc EXCEPT ![p] = "open"]
            /\ UNCHANGED exc
       ELSE /\ Raise(p, RmdirError)
            /\ UNCHANGED fs
    /\ UNCHANGED <<byteProbe, probe, files, RARFILE_AVAILABLE, lock, lockFiles, inp, outp, pre, sel,
                   written, result, calls>>

\* open(..., "wb") applied to the input path: the archive is truncated
OpenOutputOnInput(p) ==
    /\ pc[p] = "open"
    /\ files' = [files EXCEPT ![inp[p]] = [match |-> {}, ok |-> FALSE]]
    /\ pc' = [pc EXCEPT ![p] = "copy"]
    /\ UNCHANGED <<byteProbe, probe, RARFILE_AVAILABLE, fs, lock, lockFiles, inp, outp, pre, sel,
                   written, exc, result, calls>>

\* lines 39-40, 73-74: open(output_path, "wb") creates or truncates a regular
\* file and fails on a directory
OpenOutput(p) ==
    /\ pc[p] = "open"
    /\ IF fs[outp[p]].kind = "dir"
       THEN /\ Raise(p, IsADirectoryError)
            /\ UNCHANGED fs
       ELSE /\ fs' = [fs EXCEPT ![outp[p]] = File({})]
            /\ pc' = [pc EXCEPT ![p] = "copy"]
            /\ UNCHANGED exc
    /\ UNCHANGED <<byteProbe, probe, files, RARFILE_AVAILABLE, lock, lockFiles, inp, outp, pre, sel,
                   written, result, calls>>

\* lines 41, 75: shutil.copyfileobj writes the decompressed stream chunk by
\* chunk through the open file; a corrupt stream makes the library raise
\* before the last chunk
Copy(p) ==
    /\ pc[p] = "copy"
    /\ \/ /\ ~files[inp[p]].ok
          /\ Raise(p, CorruptArchive(sel[p][Len(sel[p])]))
          /\ UNCHANGED <<fs, written>>
       \/ /\ files[inp[p]].ok \/ written[p] + 1 < NumMembers
          /\ fs' = [fs EXCEPT ![outp[p]] =
                      IF @.kind = "file"
                      THEN File(WritePiece(@.content, inp[p], written[p] + 1))
                      ELSE @]
          /\ written' = [written EXCEPT ![p] = @ + 1]
          /\ pc' = [pc EXCEPT ![p] =
                      IF written[p] + 1 = NumMembers THEN "release" ELSE "copy"]
          /\ UNCHANGED exc
    /\ UNCHANGED <<byteProbe, probe, files, RARFILE_AVAILABLE, lock, lockFiles, inp, outp, pre, sel,
                   result, calls>>

\* leaving the with block with the lock still held
ReleaseKeepingLock(p) ==
    /\ pc[p] = "release"
    /\ pc' = [pc EXCEPT ![p] = "done"]
    /\ result' = [result EXCEPT ![p] = IF exc[p] = NoExc THEN Ok ELSE exc[p]]
    /\ UNCHANGED <<byteProbe, probe, files, RARFILE_AVAILABLE, fs, lock, lockFiles, inp, outp, pre,
                   sel, written, exc, calls>>

\* line 118, exit of the with block: the lock is released, then the call
\* returns or the exception reaches the caller
Release(p) ==
    /\ pc[p] = "release"
    /\ lock' = [lock EXCEPT ![LockPath(inp[p])] = 0]
    /\ pc' = [pc EXCEPT ![p] = "done"]
    /\ result' = [result EXCEPT ![p] = IF exc[p] = NoExc THEN Ok ELSE exc[p]]
    /\ UNCHANGED <<byteProbe, probe, files, RARFILE_AVAILABLE, fs, lockFiles, inp, outp, pre, sel,
                   written, exc, calls>>

\* a probe that leaves a lock file behind
IsExtractableCallLocking(path) ==
    /\ probe' = [path |-> path, held |-> HolderOf(path),
                 evaluated |-> any(1, path, <<>>).evaluated,
                 outcome |-> any(1, path, <<>>).outcome]
    /\ lockFiles' = lockFiles \cup {LockPath(path)}
    /\ UNCHANGED <<byteProbe, files, RARFILE_AVAILABLE, fs, lock, pc, inp, outp, pre,
                   sel, written, exc, result, calls>>

\* lines 108-110: a caller probes a path with Extractor.is_extractable; the
\* probe record keeps the detectors it called, what it handed back and who
\* held the path's lock meanwhile
IsExtractableCall(path) ==
    /\ probe' = [path |-> path, held |-> HolderOf(path),
                 evaluated |-> any(1, path, <<>>).evaluated,
                 outcome |-> any(1, path, <<>>).outcome]
    /\ UNCHANGED <<byteProbe, files, RARFILE_AVAILABLE, fs, lock, lockFiles, pc, inp, outp, pre,
                   sel, written, exc, result, calls>>

\* lines 14-90: one detector is run on the file under test
ByteProbe(extractor) ==
    /\ byteProbe' = [content |-> byteProbe.content,
                     detector |-> extractor,
                     value |-> is_extractable_bytes(extractor, byteProbe.content),
                     buf |-> BufferOf(extractor, byteProbe.content)]
    /\ UNCHANGED <<probe, files, RARFILE_AVAILABLE, fs, lock, lockFiles, pc, inp, outp,
                   pre, sel, written, exc, result, calls>>

\* processes calling Extractor.extract concurrently
Next ==
    \/ \E p \in Procs, i \in Inputs, o \in Outputs : Call(p, i, o)
    \/ \E p \in Procs : PreCheck(p)
    \/ \E p \in Procs : Acquire(p)
    \/ \E p \in Procs : Rmtree(p)
    \/ \E p \in Procs : Makedirs(p)
    \/ \E p \in Procs : Detect(p)
    \/ \E p \in Procs : ExtractMember(p)
    \/ \E p \in Procs : Rmdir(p)
    \/ \E p \in Procs : OpenOutput(p)
    \/ \E p \in Procs : Copy(p)
    \/ \E p \in Procs : Release(p)

Spec == Init /\ [][Next]_vars

\* The statements of a call that never wait: each of them returns or raises.
Proceed(p) ==
    \/ PreCheck(p)
    \/ Rmtree(p)
    \/ Makedirs(p)
    \/ Detect(p)
    \/ ExtractMember(p)
    \/ Rmdir(p)
    \/ OpenOutput(p)
    \/ Copy(p)
    \/ Release(p)

\* A running call goes on with its next statement, and a call that waits
\* for a lock that is free again and again gets it in the end; nothing makes
\* a caller call.
Fairness ==
    \A p \in Procs : WF_vars(Proceed(p)) /\ SF_vars(Acquire(p))

\* the fair callers work on a valid tar archive stored under one input path
\* and a valid gzip stream stored under the other, the output being absent
\* at first
InitFair ==
    /\ files = [i \in Inputs |->
                  IF i = "a" THEN [match |-> {"TarExtractor"}, ok |-> TRUE]
                  ELSE [match |-> {"GzipExtractor"}, ok |-> TRUE]]
    /\ RARFILE_AVAILABLE = TRUE
    /\ fs = [o \in Outputs |-> Absent]
    /\ lock = [l \in LockPaths |-> 0]
    /\ lockFiles = {}
    /\ pc = [p \in Procs |-> "idle"]
    /\ inp = [p \in Procs |-> "a"]
    /\ outp = [p \in Procs |-> "o"]
    /\ pre = [p \in Procs |-> Absent]
    /\ sel = [p \in Procs |-> <<>>]
    /\ written = [p \in Procs |-> 0]
    /\ exc = [p \in Procs |-> NoExc]
    /\ result = [p \in Procs |-> NoResult]
    /\ calls = 0
    /\ probe = NoProbe
    /\ byteProbe = NoByteProbe

SpecFair == InitFair /\ [][Next]_vars /\ Fairness

\* one caller alone: its calls follow one another and nothing else touches
\* the filesystem
Alone(p) == \A q \in Procs \ {p} : pc[q] = "idle"

NextSeq ==
    \/ \E p \in Procs, i \in Inputs, o \in Outputs : Alone(p) /\ Call(p, i, o)
    \/ \E p \in Procs : Alone(p) /\ PreCheck(p)
    \/ \E p \in Procs : Alone(p) /\ Acquire(p)
    \/ \E p \in Procs : Alone(p) /\ Rmtree(p)
    \/ \E p \in Procs : Alone(p) /\ Makedirs(p)
    \/ \E p \in Procs : Alone(p) /\ Detect(p)
    \/ \E p \in Procs : Alone(p) /\ ExtractMember(p)
    \/ \E p \in Procs : Alone(p) /\ Rmdir(p)
    \/ \E p \in Procs : Alone(p) /\ OpenOutput(p)
    \/ \E p \in Procs : Alone(p) /\ Copy(p)
    \/ \E p \in Procs : Alone(p) /\ Release(p)

SpecSeq == InitSeq /\ [][NextSeq]_vars

\* one caller of Extractor.extract and, at any moment of its calls, probes
\* of any path with Extractor.is_extractable
NextProbe ==
    \/ \E p \in Procs, i \in Inputs, o \in Outputs : Alone(p) /\ Call(p, i, o)
    \/ \E p \in Procs : Alone(p) /\ PreCheck(p)
    \/ \E p \in Procs : Alone(p) /\ Acquire(p)
    \/ \E p \in Procs : Alone(p) /\ Rmtree(p)
    \/ \E p \in Procs : Alone(p) /\ Makedirs(p)
    \/ \E p \in Procs : Alone(p) /\ Detect(p)
    \/ \E p \in Procs : Alone(p) /\ ExtractMember(p)
    \/ \E p \in Procs : Alone(p) /\ Rmdir(p)
    \/ \E p \in Procs : Alone(p) /\ OpenOutput(p)
    \/ \E p \in Procs : Alone(p) /\ Copy(p)
    \/ \E p \in Procs : Alone(p) /\ Release(p)
    \/ \E path \in ProbePaths : IsExtractableCall(path)

SpecProbe == InitSeq /\ [][NextProbe]_vars

\* the concurrent callers, started while a foreign process holds a lock
SpecHeld == InitHeld /\ [][Next]_vars

\* callers that may pass one of two output paths
OutputsTwo == Outputs \cup {"u"}

\* a valid tar archive or a valid gzip stream, both output paths absent
InitTwo ==
    /\ files \in FileSystems({[match |-> {"TarExtractor"}, ok |-> TRUE],
                              [match |-> {"GzipExtractor"}, ok |-> TRUE]})
    /\ RARFILE_AVAILABLE = TRUE
    /\ fs = [o \in OutputsTwo |-> Absent]
    /\ lock = [l \in LockPaths |-> 0]
    /\ lockFiles = {}
    /\ pc = [p \in Procs |-> "idle"]
    /\ inp = [p \in Procs |-> "a"]
    /\ outp = [p \in Procs |-> "o"]
    /\ pre = [p \in Procs |-> Absent]
    /\ sel = [p \in Procs |-> <<>>]
    /\ written = [p \in Procs |-> 0]
    /\ exc = [p \in Procs |-> NoExc]
    /\ result = [p \in Procs |-> NoResult]
    /\ calls = 0
    /\ probe = NoProbe
    /\ byteProbe = NoByteProbe

NextTwo ==
    \/ \E p \in Procs, i \in Inputs, o \in OutputsTwo : Call(p, i, o)
    \/ \E p \in Procs : PreCheck(p)
    \/ \E p \in Procs : Acquire(p)
    \/ \E p \in Procs : Rmtree(p)
    \/ \E p \in Procs : Makedirs(p)
    \/ \E p \in Procs : Detect(p)
    \/ \E p \in Procs : ExtractMember(p)
    \/ \E p \in Procs : Rmdir(p)
    \/ \E p \in Procs : OpenOutput(p)
    \/ \E p \in Procs : Copy(p)
    \/ \E p \in Procs : Release(p)

SpecTwo == InitTwo /\ [][NextTwo]_vars

\* the file under test, given byte by byte, is stored under every input
\* path; the output path is absent at first
InitBytes ==
    /\ byteProbe \in {[content |-> c, detector |-> "none", value |-> FALSE, buf |-> <<>>] :
                        c \in ByteFiles}
    /\ files = [i \in Inputs |-> KindOfBytes(byteProbe.content)]
    /\ RARFILE_AVAILABLE \in
          IF \E i \in Inputs : "RarExtractor" \in files[i].match
          THEN BOOLEAN ELSE {TRUE}
    /\ fs = [o \in Outputs |-> Absent]
    /\ lock = [l \in LockPaths |-> 0]
    /\ lockFiles = {}
    /\ pc = [p \in Procs |-> "idle"]
    /\ inp = [p \in Procs |-> "a"]
    /\ outp = [p \in Procs |-> "o"]
    /\ pre = [p \in Procs |-> Absent]
    /\ sel = [p \in Procs |-> <<>>]
    /\ written = [p \in Procs |-> 0]
    /\ exc = [p \in Procs |-> NoExc]
    /\ result = [p \in Procs |-> NoResult]
    /\ calls = 0
    /\ probe = NoProbe

\* one caller of Extractor.extract, probes with Extractor.is_extractable and
\* runs of the single detectors
NextBytes ==
    \/ \E p \in Procs, i \in Inputs, o \in Outputs : Alone(p) /\ Call(p, i, o)
    \/ \E p \in Procs : Alone(p) /\ PreCheck(p)
    \/ \E p \in Procs : Alone(p) /\ Acquire(p)
    \/ \E p \in Procs : Alone(p) /\ Rmtree(p)
    \/ \E p \in Procs : Alone(p) /\ Makedirs(p)
    \/ \E p \in Procs : Alone(p) /\ Detect(p)
    \/ \E p \in Procs : Alone(p) /\ ExtractMember(p)
    \/ \E p \in Procs : Alone(p) /\ Rmdir(p)
    \/ \E p \in Procs : Alone(p) /\ OpenOutput(p)
    \/ \E p \in Procs : Alone(p) /\ Copy(p)
    \/ \E p \in Procs : Alone(p) /\ Release(p)
    \/ \E path \in Inputs : IsExtractableCall(path)
    \/ \E extractor \in ExtractorSet : ByteProbe(extractor)

SpecBytes == InitBytes /\ [][NextBytes]_vars

\* ------------------------------------------------------- derived notions
\* positions inside the with block of lines 118-124
LockedSection ==
    {"rmtree", "makedirs", "detect", "extractall", "rmdir", "open", "copy", "release"}

\* the extractor the call of p invoked last ("none": none so far)
Selected(p) == IF sel[p] = <<>> THEN "none" ELSE sel[p][Len(sel[p])]

SingleStream == {"GzipExtractor", "XzExtractor"}

\* what one complete extraction of input i with extractor e puts at the output
Extracted(i, e) == IF e \in SingleStream THEN File(Pieces(i)) ELSE Dir(Pieces(i))

\* positions of the with block whose next step changes the output path
MutatingSection == {"rmtree", "makedirs", "extractall", "rmdir", "open", "copy"}

\* the extractor that lines 121-123 pick for input i ("none": no match)
ExtractorFor(i) == IF FirstMatch(i) = 0 THEN "none" ELSE extractors[FirstMatch(i)]

\* input i is a valid archive of a supported format that this environment
\* can unpack
Unpackable(i) ==
    /\ Extractor_is_extractable(i)
    /\ files[i].ok
    /\ ExtractorFor(i) = "RarExtractor" => RARFILE_AVAILABLE

\* ----------------------------------------------------------------- claims
\* C1: for any number of processes calling Extractor.extract, at most one
\* of them is inside the with block for a given input path, and a process
\* inside it holds the file lock at input_path + ".lock".
C1_MutualExclusionPerInput ==
    /\ \A p, q \in Procs :
          (p # q /\ pc[p] \in LockedSection /\ pc[q] \in LockedSection)
          => inp[p] # inp[q]
    /\ \A p \in Procs :
          pc[p] \in LockedSection
          => /\ lock[inp[p] \o ".lock"] = p
             /\ (inp[p] \o ".lock") \in lockFiles

\* two calls on one input: one unpacks, the other waits for the lock
C1_Witness ==
    \E p, q \in Procs :
        p # q /\ inp[p] = inp[q] /\ pc[p] = "extractall" /\ pc[q] = "acquire"

\* C2: a call on an input that no detector matches ends at its check with
\* the UnknownArchiveFormat failure; neither entering the call nor the check
\* changes any output path or any lock.
C2_UnknownFormatLeavesOutput ==
    [][\A p \in Procs :
          /\ (pc[p] \in {"idle", "done"} /\ pc'[p] = "check")
             => (fs' = fs /\ lock' = lock)
          /\ (pc[p] = "check" /\ ~Extractor_is_extractable(inp[p])
                /\ pc'[p] # "check")
             => /\ pc'[p] = "done"
                /\ result'[p] = UnknownArchiveFormat
                /\ fs' = fs
                /\ lock' = lock
                /\ lockFiles' = lockFiles]_vars

\* an unknown-format call has failed and the output still holds what it held
C2_Witness ==
    \E p \in Procs :
        /\ pc[p] = "done"
        /\ result[p] = UnknownArchiveFormat
        /\ ~Extractor_is_extractable(inp[p])
        /\ pre[p] = Dir({OldPiece})
        /\ fs[outp[p]] = pre[p]

\* C3: two calls with the same input and the same output, both begun while
\* the output was absent: they are never inside the with block together,
\* and once both have returned on a valid archive both have succeeded and
\* the output is what one extraction of that input yields.
C3_ConcurrentSameInputSameOutput ==
    \A p, q \in Procs :
        (p # q /\ inp[p] = inp[q] /\ outp[p] = outp[q])
        => /\ ~(pc[p] \in LockedSection /\ pc[q] \in LockedSection)
           /\ (/\ calls = 2
                /\ pc[p] = "done" /\ pc[q] = "done"
                /\ pre[p] = Absent /\ pre[q] = Absent
                /\ Unpackable(inp[p]))
              => /\ result[p] = Ok
                 /\ result[q] = Ok
                 /\ fs[outp[p]] = Extracted(inp[p], ExtractorFor(inp[p]))

\* C4: a caller alone extracts a valid archive into an absent output and
\* then again into the output the first extraction produced: both calls
\* succeed and the output is the same after each.
C4_Idempotence ==
    \A p \in Procs :
        (/\ pc[p] = "done"
         /\ Unpackable(inp[p])
         /\ pre[p] \in {Absent, Extracted(inp[p], ExtractorFor(inp[p]))})
        => /\ result[p] = Ok
           /\ fs[outp[p]] = Extracted(inp[p], ExtractorFor(inp[p]))

\* C5: a process outside the with block holds no lock, whichever way it
\* left the block; a call has reported nothing to its caller while it holds
\* a lock, and what it reports is the exception raised inside the block.
C5_LockReleasedOnEveryExit ==
    \A p \in Procs :
        /\ (pc[p] \notin LockedSection \/ result[p] # NoResult)
           => \A l \in LockPaths : lock[l] # p
        /\ (pc[p] = "done" /\ exc[p] # NoExc) => result[p] = exc[p]

\* a call failed while unpacking and another caller now holds its lock
C5_Witness ==
    \E p, q \in Procs :
        /\ p # q
        /\ pc[p] = "done"
        /\ result[p] = CorruptArchive(Selected(p))
        /\ lock[LockPath(inp[p])] = q

\* C6: for a caller alone, every call that took the lock reaches lines
\* 121-123 with the output an empty directory, whatever the output was
\* before, and so never ends without having invoked its extractor.
C6_CleanSlate ==
    \A p \in Procs :
        /\ pc[p] = "detect" => fs[outp[p]] = Dir({})
        /\ (pc[p] \in {"release", "done"} /\ Extractor_is_extractable(inp[p]))
           => sel[p] # <<>>

\* C7 as stated: at most one call is changing a given output path at a time
C7_ExclusiveOutput ==
    \A p, q \in Procs :
        (p # q /\ outp[p] = outp[q])
        => ~(pc[p] \in MutatingSection /\ pc[q] \in MutatingSection)

\* C7 amended: two calls that are changing the same output path at the same
\* time have different input paths.
C7_ExclusiveOutputPerInput ==
    \A p, q \in Procs :
        (p # q /\ outp[p] = outp[q]
           /\ pc[p] \in MutatingSection /\ pc[q] \in MutatingSection)
        => inp[p] # inp[q]

\* same input, same output: one call writes the stream, the other waits
C7_Witness ==
    \E p, q \in Procs :
        /\ p # q /\ inp[p] = inp[q] /\ outp[p] = outp[q]
        /\ pc[p] = "copy" /\ written[p] > 0
        /\ pc[q] = "acquire"

\* C8: for a caller alone, after a successful call that selected Gzip or Xz
\* the output is a regular file holding the whole decompressed stream, and
\* after one that selected Tar, Zip or Rar it is a directory holding the
\* archive's members.
C8_ResultKind ==
    \A p \in Procs :
        (pc[p] = "done" /\ result[p] = Ok)
        => /\ Selected(p) \in {"GzipExtractor", "XzExtractor"}
              => fs[outp[p]] = [kind |-> "file", content |-> Pieces(inp[p])]
           /\ Selected(p) \in {"TarExtractor", "ZipExtractor", "RarExtractor"}
              => fs[outp[p]] = [kind |-> "dir", content |-> Pieces(inp[p])]
           /\ Selected(p) # "none"

\* an xz archive was extracted into an output that was a non-empty directory
C8_Witness ==
    \E p \in Procs :
        /\ pc[p] = "done" /\ result[p] = Ok
        /\ Selected(p) = "XzExtractor"
        /\ pre[p] = Dir({OldPiece})
        /\ fs[outp[p]].kind = "file"

\* the fixed order of C9
PriorityOrder ==
    <<"TarExtractor", "GzipExtractor", "ZipExtractor", "XzExtractor", "RarExtractor">>

C10_MissingCapability ==
    \A p \in Procs :
        (Selected(p) = "RarExtractor" /\ ~RARFILE_AVAILABLE)
        => /\ pc[p] \in {"release", "done"}
           /\ written[p] = 0
           /\ exc[p] = [type |-> "EnvironmentError", msg |-> "Please pip install rarfile"]
           /\ exc[p] # UnknownArchiveFormat
           /\ \A e \in ExtractorSet : exc[p] # CorruptArchive(e)
           /\ pc[p] = "done" => result[p] = exc[p]

\* a valid rar archive, no rarfile: the call has failed
C10_Witness ==
    \E p \in Procs :
        /\ pc[p] = "done"
        /\ files[inp[p]].match = {"RarExtractor"}
        /\ files[inp[p]].ok
        /\ ~RARFILE_AVAILABLE
        /\ result[p] = MissingOptionalDependency

C12_ProbeReadOnly ==
    [][probe' # probe
        => /\ files' = files
           /\ fs' = fs
           /\ lockFiles' = lockFiles
           /\ lock' = lock]_vars

\* an input was probed while a call held its lock and had written half of
\* its output, and the call is still where it was
C12_Witness ==
    \E p \in Procs :
        /\ probe.path = inp[p]
        /\ probe.held = p
        /\ lock[LockPath(inp[p])] = p
        /\ pc[p] = "copy"
        /\ written[p] = 1
        /\ fs[outp[p]] = File({<<inp[p], 1>>})

\* C13: whatever path was probed, each of the five detectors hands back a
\* boolean on it, and False when the path cannot be opened or read.
C13_DetectorTotality ==
    probe.path \in ProbePaths
    => \A e \in ExtractorSet :
          /\ ~is_extractable_outcome(e, probe.path).raised
          /\ ~Readable(probe.path) => ~is_extractable_outcome(e, probe.path).value

C15_UnknownFormatNeedsNoLock ==
    \A p \in Procs :
        (pc[p] # "idle" /\ ~Extractor_is_extractable(inp[p]))
        => /\ pc[p] \in {"check", "done"}
           /\ lock[LockPath(inp[p])] # p
           /\ pc[p] = "check" => ENABLED PreCheck(p)
           /\ pc[p] = "done" => result[p] = UnknownArchiveFormat

\* a foreign process holds the lock of an input from the start and for
\* ever; a call on that input, which nothing matches, has failed
C15_Witness ==
    \E p \in Procs :
        /\ pc[p] = "done"
        /\ ~Extractor_is_extractable(inp[p])
        /\ result[p] = UnknownArchiveFormat
        /\ lock[LockPath(inp[p])] = Foreign

\* C16: of two callers with the same input and the same output, one has
\* returned with success; the other, now inside the with block, finds the
\* complete output of the first and neither clears it nor invokes an
\* extractor.
C16_NoSecondExtraction ==
    \A p, q \in Procs :
        (/\ p # q /\ calls = 2
         /\ inp[p] = inp[q] /\ outp[p] = outp[q]
         /\ pc[p] = "done" /\ result[p] = Ok
         /\ pc[q] \in LockedSection \cup {"done"})
        => /\ fs[outp[q]] = Extracted(inp[p], Selected(p))
           /\ sel[q] = <<>>
           /\ written[q] = 0

\* C17: a caller alone calls on a valid archive while the output holds what
\* a failed attempt left, a partly filled directory or a partial regular
\* file: the call succeeds and the output is exactly the unpacked content of
\* its input.
C17_RecoveryByRerun ==
    \A p \in Procs :
        (/\ pc[p] = "done"
         /\ Unpackable(inp[p])
         /\ pre[p] \in {Dir({OldPiece}), File({OldPiece})})
        => /\ result[p] = Ok
           /\ fs[outp[p]] = Extracted(inp[p], Selected(p))
           /\ OldPiece \notin fs[outp[p]].content

\* C18: every step that changes an output path is the step of a call that
\* holds the lock of its input before the step and still holds it after.
C18_LockBeforeMutation ==
    [][\A o \in Outputs :
          fs'[o] # fs[o]
          => \E p \in Procs :
                /\ outp[p] = o
                /\ pc'[p] # pc[p] \/ written'[p] # written[p]
                /\ pc[p] \in {"rmtree", "makedirs", "extractall", "rmdir", "open", "copy"}
                /\ lock[inp[p] \o ".lock"] = p
                /\ lock'[inp[p] \o ".lock"] = p
                /\ (inp[p] \o ".lock") \in lockFiles]_vars

\* a call holds its lock and has written the first member; another call on
\* the same input waits for the lock and has changed nothing
C18_Witness ==
    \E p, q \in Procs :
        /\ p # q /\ inp[p] = inp[q]
        /\ pc[p] = "extractall" /\ written[p] = 1
        /\ lock[LockPath(inp[p])] = p
        /\ fs[outp[p]] = Dir({<<inp[p], 1>>})
        /\ pc[q] = "acquire"

\* C19 as stated: whenever a call is about to run os.rmdir, the first
\* statement of GzipExtractor.extract and XzExtractor.extract, the output
\* path is an empty directory
C19_PlaceholderIsEmptyDirectory ==
    \A p \in Procs : pc[p] = "rmdir" => fs[outp[p]] = Dir({})

\* C19 amended: whenever a call is about to run os.rmdir and no call on
\* another input path has ever taken its lock, the output path is an empty
\* directory.
C19_PlaceholderIsEmptyDirectoryPerInput ==
    \A p \in Procs :
        (pc[p] = "rmdir" /\ lockFiles = {LockPath(inp[p])})
        => fs[outp[p]] = Dir({})

\* a gzip or xz call is about to remove the placeholder that replaced a
\* non-empty directory, while another call on the same input waits
C19_Witness ==
    \E p, q \in Procs :
        /\ p # q /\ inp[p] = inp[q] /\ outp[p] = outp[q]
        /\ pc[p] = "rmdir"
        /\ Selected(p) \in SingleStream
        /\ pre[p] = Dir({OldPiece})
        /\ fs[outp[p]] = Dir({})
        /\ lockFiles = {LockPath(inp[p])}
        /\ pc[q] = "acquire"

\* C20: a call that returned normally invoked exactly one extractor, the
\* first of Tar, Gzip, Zip, Xz, Rar that matches its input, which is what the
\* check before the lock saw; it wrote that extractor's whole output.
C20_DetectionAgrees ==
    \A p \in Procs :
        (pc[p] = "done" /\ result[p] = Ok)
        => /\ Len(sel[p]) = 1
           /\ \E k \in 1..5 :
                 /\ sel[p][1] = PriorityOrder[k]
                 /\ PriorityOrder[k] \in files[inp[p]].match
                 /\ \A j \in 1..(k - 1) : PriorityOrder[j] \notin files[inp[p]].match
           /\ written[p] = NumMembers
           /\ fs[outp[p]] # Dir({})

\* an input that the Zip and Rar detectors match was unpacked by Zip
C20_Witness ==
    \E p \in Procs :
        /\ pc[p] = "done" /\ result[p] = Ok
        /\ files[inp[p]].match = {"ZipExtractor", "RarExtractor"}
        /\ sel[p] = <<"ZipExtractor">>
        /\ fs[outp[p]] = Dir(Pieces(inp[p]))

\* C21: no call ever holds more than one lock, a call that waits for a lock
\* holds none, and every call that has begun eventually returns to its
\* caller, with success or with a failure.
C21_Progress ==
    /\ [](\A p \in Procs :
            /\ Cardinality({l \in LockPaths : lock[l] = p}) <= 1
            /\ pc[p] = "acquire" => \A l \in LockPaths : lock[l] # p)
    /\ \A p \in Procs :
          (pc[p] \notin {"idle", "done"})
          ~> (pc[p] = "done" /\ result[p] # NoResult)

\* two calls on the same input have both been inside the with block and
\* both have returned
C21_Witness ==
    \E p, q \in Procs :
        /\ p # q /\ inp[p] = inp[q]
        /\ pc[p] = "done" /\ pc[q] = "done"
        /\ sel[p] # <<>> /\ sel[q] # <<>>
        /\ result[p] # NoResult /\ result[q] # NoResult

\* C22: for a caller alone, every call that took the lock has removed the
\* output when it comes to os.makedirs, has an empty directory when it comes
\* to the loop, and has invoked its extractor when it ends, whatever an
\* earlier call left at the output.
C22_UnconditionalRedo ==
    \A p \in Procs :
        /\ pc[p] = "makedirs" => fs[outp[p]] = Absent
        /\ pc[p] = "detect" => fs[outp[p]] = Dir({})
        /\ (pc[p] = "done" /\ Extractor_is_extractable(inp[p])
              /\ LockPath(inp[p]) \in lockFiles)
           => Len(sel[p]) = 1

\* C23: two input paths have the same lock path exactly when they are the
\* same string, and a call that waits for its lock can take it exactly when
\* no other call with the same input path is inside the with block,
\* whatever the output paths of the calls and whatever other locks are held.
C23_LockIdentity ==
    /\ \A i, j \in Inputs : (LockPath(i) = LockPath(j)) <=> (i = j)
    /\ \A p \in Procs :
          pc[p] = "acquire"
          => (ENABLED Acquire(p)
              <=> ~\E q \in Procs \ {p} : inp[q] = inp[p] /\ pc[q] \in LockedSection)

\* a call waits for the lock of its input, held by a call that unpacks the
\* same input into another output path
C23_Witness ==
    \E p, q \in Procs :
        /\ p # q /\ inp[p] = inp[q] /\ outp[p] # outp[q]
        /\ pc[p] = "acquire" /\ ~ENABLED Acquire(p)
        /\ pc[q] = "extractall" /\ written[q] = 1
        /\ lock[LockPath(inp[q])] = q

\* C24: when the file under test is empty, no detector run on it answers
\* True, Extractor.is_extractable answers False on it and every
\* Extractor.extract call on it ends with the UnknownArchiveFormat failure.
C24_EmptyFileMatchesNothing ==
    byteProbe.content = <<>>
    => /\ byteProbe.detector \in ExtractorSet => ~byteProbe.value
       /\ probe.path \in Inputs => probe.outcome = Returns(FALSE)
       /\ \A p \in Procs : pc[p] = "done" => result[p] = UnknownArchiveFormat

\* C25: RarExtractor.is_extractable has read the first 8 bytes of the file,
\* or the whole file if it is shorter; it answers True exactly when the file
\* starts with 52 61 72 21 1A 07 00 or with 52 61 72 21 1A 07 01 00, hence
\* False on a file shorter than 7 bytes, and it answers the same on every
\* file that has the same first 8 bytes.
C25_RarSignature ==
    byteProbe.detector = "RarExtractor"
    => LET c == byteProbe.content
           first(d) == IF Len(d) <= 8 THEN d ELSE SubSeq(d, 1, 8)
       IN  /\ byteProbe.buf = first(c)
           /\ byteProbe.value
              <=> \/ /\ Len(c) >= 7
                     /\ SubSeq(c, 1, 7) = <<82, 97, 114, 33, 26, 7, 0>>
                  \/ /\ Len(c) >= 8
                     /\ SubSeq(c, 1, 8) = <<82, 97, 114, 33, 26, 7, 1, 0>>
           /\ Len(c) < 7 => ~byteProbe.value
           /\ \A d \in ByteFiles :
                 first(d) = first(c)
                 => RarExtractor_is_extractable_bytes(d) = byteProbe.value
           /\ byteProbe.value <=> "RarExtractor" \in files["a"].match

\* the detector answered True on the 8 bytes of the RAR5 signature followed
\* by one more byte
C25_Witness ==
    /\ byteProbe.detector = "RarExtractor"
    /\ byteProbe.content = <<82, 97, 114, 33, 26, 7, 1, 0, 1>>
    /\ byteProbe.buf = <<82, 97, 114, 33, 26, 7, 1, 0>>
    /\ byteProbe.value

\* C26: XzExtractor.is_extractable answers True exactly when the file has at
\* least 6 bytes and its first 6 bytes are FD 37 7A 58 5A 00, hence False on
\* a file shorter than 6 bytes, and it answers the same on every file that
\* has the same first 6 bytes.
C26_XzMagic ==
    byteProbe.detector = "XzExtractor"
    => LET c == byteProbe.content
           first(d) == IF Len(d) <= 6 THEN d ELSE SubSeq(d, 1, 6)
       IN  /\ byteProbe.value
              <=> (Len(c) >= 6 /\ SubSeq(c, 1, 6) = <<253, 55, 122, 88, 90, 0>>)
           /\ Len(c) < 6 => ~byteProbe.value
           /\ \A d \in ByteFiles :
                 first(d) = first(c)
                 => XzExtractor_is_extractable_bytes(d) = byteProbe.value
           /\ byteProbe.value <=> "XzExtractor" \in files["a"].match

\* the detector answered True on the magic followed by two more bytes
C26_Witness ==
    /\ byteProbe.detector = "XzExtractor"
    /\ byteProbe.content = <<253, 55, 122, 88, 90, 0, 1, 0>>
    /\ byteProbe.value

====
